---- MODULE Spec2Model ----
(***************************************************************************)
(* Model of service/therapy_outline_service.py: TherapyOutlineService.     *)
(*                                                                         *)
(* Texts (the model reply, the prompt) are sequences of tokens; a token is *)
(* a record [k, s, n].  JSON values / Python objects are records           *)
(* [t, s, n, a]; a dict is t = "obj" with a = sequence of members [k, v].  *)
(***************************************************************************)
EXTENDS Integers, Sequences, FiniteSets, TLC

\* ------------------------------------------------------------------ bounds
NumInv == 2

\* ------------------------------------------------------------------ tokens
Punct(c) == [k |-> "punct", s |-> c, n |-> 0]
StrTok(x) == [k |-> "str", s |-> x, n |-> 0]
SqTok(x) == [k |-> "sq", s |-> x, n |-> 0]
NumTok(i) == [k |-> "num", s |-> "", n |-> i]
NullTok == [k |-> "null", s |-> "", n |-> 0]
NoneTok == [k |-> "None", s |-> "", n |-> 0]
Word(x) == [k |-> "word", s |-> x, n |-> 0]
\* a markdown code-fence marker (three backticks)
Fence == [k |-> "fence", s |-> "", n |-> 0]

\* ------------------------------------------------------------------ values
JNull == [t |-> "null", s |-> "", n |-> 0, a |-> <<>>]
JStr(x) == [t |-> "str", s |-> x, n |-> 0, a |-> <<>>]
JNum(i) == [t |-> "num", s |-> "", n |-> i, a |-> <<>>]
JArr(xs) == [t |-> "arr", s |-> "", n |-> 0, a |-> xs]
JObj(ms) == [t |-> "obj", s |-> "", n |-> 0, a |-> ms]
Mem(key, val) == [k |-> key, v |-> val]

\* dict: d[key] = val keeps the position of an existing key, else appends
DictSet(ms, key, val) ==
    IF \E j \in 1..Len(ms) : ms[j].k = key
    THEN [j \in 1..Len(ms) |-> IF ms[j].k = key THEN Mem(key, val) ELSE ms[j]]
    ELSE Append(ms, Mem(key, val))

HasKey(d, key) == d.t = "obj" /\ \E j \in 1..Len(d.a) : d.a[j].k = key

DictGet(d, key) == d.a[CHOOSE j \in 1..Len(d.a) : d.a[j].k = key].v

\* ------------------------------------------------------------------ json
\* json.loads on a token text: recursive descent; a result is
\* [ok, v, pos]: on success pos is the next unread token, on failure the
\* position at which the decoder gave up.
POk(val, p) == [ok |-> TRUE, v |-> val, pos |-> p]
PFail(p) == [ok |-> FALSE, v |-> JNull, pos |-> p]

IsPunct(ts, p, c) == p <= Len(ts) /\ ts[p].k = "punct" /\ ts[p].s = c

RECURSIVE ParseValue(_, _)
RECURSIVE ParseElems(_, _, _)
RECURSIVE ParseMembers(_, _, _)

ParseValue(ts, p) ==
    IF p > Len(ts) THEN PFail(p)
    ELSE CASE ts[p].k = "str" -> POk(JStr(ts[p].s), p + 1)
           [] ts[p].k = "num" -> POk(JNum(ts[p].n), p + 1)
           [] ts[p].k = "null" -> POk(JNull, p + 1)
           [] IsPunct(ts, p, "[") ->
                IF IsPunct(ts, p + 1, "]") THEN POk(JArr(<<>>), p + 2)
                ELSE ParseElems(ts, p + 1, <<>>)
           [] IsPunct(ts, p, "{") ->
                IF IsPunct(ts, p + 1, "}") THEN POk(JObj(<<>>), p + 2)
                ELSE ParseMembers(ts, p + 1, <<>>)
           [] OTHER -> PFail(p)

ParseElems(ts, p, acc) ==
    LET r == ParseValue(ts, p) IN
    IF ~r.ok THEN r
    ELSE IF IsPunct(ts, r.pos, ",") THEN ParseElems(ts, r.pos + 1, Append(acc, r.v))
    ELSE IF IsPunct(ts, r.pos, "]") THEN POk(JArr(Append(acc, r.v)), r.pos + 1)
    ELSE PFail(r.pos)

ParseMembers(ts, p, acc) ==
    IF ~(p <= Len(ts) /\ ts[p].k = "str") THEN PFail(p)
    ELSE IF ~IsPunct(ts, p + 1, ":") THEN PFail(p + 1)
    ELSE LET r == ParseValue(ts, p + 2) IN
         IF ~r.ok THEN r
         ELSE IF IsPunct(ts, r.pos, ",")
              THEN ParseMembers(ts, r.pos + 1, DictSet(acc, ts[p].s, r.v))
         ELSE IF IsPunct(ts, r.pos, "}")
              THEN POk(JObj(DictSet(acc, ts[p].s, r.v)), r.pos + 1)
         ELSE PFail(r.pos)

\* json.loads(output): the whole text must be one value ("Extra data" otherwise)
json_loads(ts) ==
    LET r == ParseValue(ts, 1) IN
    IF r.ok /\ r.pos <= Len(ts) THEN PFail(r.pos) ELSE r

\* json.dumps: the text of a value
RECURSIVE dumps(_)
RECURSIVE dumps_elems(_, _)
RECURSIVE dumps_members(_, _)

dumps(v) ==
    CASE v.t = "str" -> <<StrTok(v.s)>>
      [] v.t = "num" -> <<NumTok(v.n)>>
      [] v.t = "null" -> <<NullTok>>
      [] v.t = "arr" -> <<Punct("[")>> \o dumps_elems(v.a, 1) \o <<Punct("]")>>
      [] v.t = "obj" -> <<Punct("{")>> \o dumps_members(v.a, 1) \o <<Punct("}")>>

dumps_elems(xs, j) ==
    IF j > Len(xs) THEN <<>>
    ELSE dumps(xs[j]) \o (IF j < Len(xs) THEN <<Punct(",")>> ELSE <<>>)
         \o dumps_elems(xs, j + 1)

dumps_members(ms, j) ==
    IF j > Len(ms) THEN <<>>
    ELSE <<StrTok(ms[j].k), Punct(":")>> \o dumps(ms[j].v)
         \o (IF j < Len(ms) THEN <<Punct(",")>> ELSE <<>>)
         \o dumps_members(ms, j + 1)

\* str() of a dict inside an f-string: Python repr, single-quoted strings
RECURSIVE py_str(_)
RECURSIVE py_str_elems(_, _)
RECURSIVE py_str_members(_, _)

py_str(v) ==
    CASE v.t = "str" -> <<SqTok(v.s)>>
      [] v.t = "num" -> <<NumTok(v.n)>>
      [] v.t = "null" -> <<NoneTok>>
      [] v.t = "arr" -> <<Punct("[")>> \o py_str_elems(v.a, 1) \o <<Punct("]")>>
      [] v.t = "obj" -> <<Punct("{")>> \o py_str_members(v.a, 1) \o <<Punct("}")>>

py_str_elems(xs, j) ==
    IF j > Len(xs) THEN <<>>
    ELSE py_str(xs[j]) \o (IF j < Len(xs) THEN <<Punct(",")>> ELSE <<>>)
         \o py_str_elems(xs, j + 1)

py_str_members(ms, j) ==
    IF j > Len(ms) THEN <<>>
    ELSE <<SqTok(ms[j].k), Punct(":")>> \o py_str(ms[j].v)
         \o (IF j < Len(ms) THEN <<Punct(",")>> ELSE <<>>)
         \o py_str_members(ms, j + 1)

\* ------------------------------------------------------------------ model
\* the Step / TherapyOutline entities (package model)
StepTypes == {"INTRODUCTION", "NORMAL", "CONCLUSION"}
Voices == {"alloy", "echo", "fable", "onyx", "nova", "shimmer"}

IsStrList(v) == v.t = "arr" /\ \A j \in 1..Len(v.a) : v.a[j].t = "str"

IsScript(v) ==
    /\ v.t = "obj"
    /\ HasKey(v, "voice") /\ DictGet(v, "voice").t = "str"
    /\ DictGet(v, "voice").s \in Voices
    /\ HasKey(v, "text") /\ DictGet(v, "text").t = "str"

\* the keyword arguments Step(**step) accepts
StepValid(e) ==
    /\ e.t = "obj"
    /\ HasKey(e, "step") /\ DictGet(e, "step").t = "num"
    /\ HasKey(e, "description") /\ DictGet(e, "description").t = "str"
    /\ HasKey(e, "guide") /\ IsStrList(DictGet(e, "guide"))
    /\ HasKey(e, "type") /\ DictGet(e, "type").t = "str"
    /\ DictGet(e, "type").s \in StepTypes
    /\ HasKey(e, "media_urls") /\ IsStrList(DictGet(e, "media_urls"))
    /\ HasKey(e, "script") /\ IsScript(DictGet(e, "script"))

StrList(v) == [j \in 1..Len(v.a) |-> v.a[j].s]

\* Step(**step) for a valid entry
Step(e) ==
    [step |-> DictGet(e, "step").n,
     description |-> DictGet(e, "description").s,
     guide |-> StrList(DictGet(e, "guide")),
     type |-> DictGet(e, "type").s,
     media_urls |-> StrList(DictGet(e, "media_urls")),
     script |-> [voice |-> DictGet(DictGet(e, "script"), "voice").s,
                 text |-> DictGet(DictGet(e, "script"), "text").s]]

\* ------------------------------------------------------------------ errors
NoErr == [type |-> "none", msg |-> "", cause |-> 0]
Err(ty, m) == [type |-> ty, msg |-> m, cause |-> 0]
ErrFrom(ty, m, c) == [type |-> ty, msg |-> m, cause |-> c]

\* mutant: the decode error is caught and an empty dict returned
_parse_json_output_lenient(output) ==
    LET r == json_loads(output) IN
    IF r.ok THEN [ok |-> TRUE, v |-> r.v, err |-> NoErr]
    ELSE [ok |-> TRUE, v |-> JObj(<<>>), err |-> NoErr]

\* _parse_json_output: the dict, or ValueError built from the decode error e
\* (cause: where the decoder gave up)
_parse_json_output(output) ==
    LET r == json_loads(output) IN
    IF r.ok THEN [ok |-> TRUE, v |-> r.v, err |-> NoErr]
    ELSE [ok |-> FALSE, v |-> JNull,
          err |-> ErrFrom("ValueError", "Invalid JSON output from OpenAI", r.pos)]

\* iterating a Python value: list -> items, dict -> keys, str -> characters
\* (a non-empty string stands for its characters by one str item)
Iterable(v) == v.t \in {"arr", "obj", "str"}

Iter(v) ==
    CASE v.t = "arr" -> v.a
      [] v.t = "obj" -> [j \in 1..Len(v.a) |-> JStr(v.a[j].k)]
      [] v.t = "str" -> IF v.s = "" THEN <<>> ELSE <<JStr(v.s)>>
      [] OTHER -> <<>>

\* mutant: the steps come out in reverse order
MapStepEntries_reversed(entries) ==
    [j \in 1..Len(entries) |-> Step(entries[Len(entries) + 1 - j])]

\* [Step(**step) for step in entries]: the steps in order (all entries valid)
MapStepEntries(entries) == [j \in 1..Len(entries) |-> Step(entries[j])]

\* the first exception of [Step(**step) for step in outline_json["steps"]],
\* NoErr when the comprehension completes
StepsError(oj) ==
    IF oj.t # "obj" THEN Err("TypeError", "indices must be integers")
    ELSE IF ~HasKey(oj, "steps") THEN Err("KeyError", "steps")
    ELSE LET sv == DictGet(oj, "steps") IN
         IF ~Iterable(sv) THEN Err("TypeError", "object is not iterable")
         ELSE LET es == Iter(sv)
                  bad == {j \in 1..Len(es) : ~StepValid(es[j])}
              IN IF bad = {} THEN NoErr
                 ELSE LET f == CHOOSE j \in bad : \A h \in bad : j <= h IN
                      IF es[f].t # "obj"
                      THEN Err("TypeError", "argument after ** must be a mapping")
                      ELSE Err("ValidationError", "Step")

\* mutant: the ids are taken from the reply when it carries them
TherapyOutline_ids_from_reply(memory_id, mem, oj) ==
    [patient_id |-> IF HasKey(oj, "patient_id") /\ DictGet(oj, "patient_id").t = "str"
                    THEN DictGet(oj, "patient_id").s ELSE mem.patient_id,
     memory_id |-> IF HasKey(oj, "memory_id") /\ DictGet(oj, "memory_id").t = "str"
                   THEN DictGet(oj, "memory_id").s ELSE memory_id,
     steps |-> MapStepEntries(Iter(DictGet(oj, "steps")))]

\* TherapyOutline(patient_id=memory.patient_id, memory_id=memory_id, steps=[...])
TherapyOutline(memory_id, mem, oj) ==
    [patient_id |-> mem.patient_id,
     memory_id |-> memory_id,
     steps |-> MapStepEntries(Iter(DictGet(oj, "steps")))]

\* ------------------------------------------------------------------ collaborators
\* MemoryService.get_memory_by_id: a Memory, or None when nothing is found
NoneMemory == [isNone |-> TRUE, patient_id |-> "", dump |-> JNull]
Memory(id, pid, title) ==
    [isNone |-> FALSE, patient_id |-> pid,
     dump |-> JObj(<<Mem("_id", JStr(id)), Mem("patient_id", JStr(pid)),
                     Mem("title", JStr(title))>>)]

MemoryIds == {"m1", "m2", "m3"}

get_memory_by_id(id) ==
    CASE id = "m1" -> Memory("m1", "p1", "wedding")
      [] id = "m2" -> Memory("m2", "p2", "harvest")
      [] OTHER -> NoneMemory

\* PatientService.get_patient_by_id
NoPatient == [dump |-> JNull]
get_patient_by_id(pid) ==
    [dump |-> JObj(<<Mem("_id", JStr(pid)), Mem("age", JNum(70))>>)]

\* bool(memory) in "if not memory"
Truthy(mem) == ~mem.isNone

\* TherapyOutlineRepository: the stored outlines, in insertion order
NoOutline == [patient_id |-> "", memory_id |-> "", steps |-> <<>>]
NoId == 0

\* repository.save_therapy_outline: the new store and the identifier it yields
\* (by: the invocation that saved, kept for the properties only)
save_therapy_outline(st, o, i) ==
    [store |-> Append(st, [id |-> Len(st) + 1, outline |-> o, by |-> i]),
     id |-> Len(st) + 1]

\* repository.get_therapy_outline_by_memory_id: the outlines it may return
repository_get_therapy_outline_by_memory_id(st, id) ==
    {st[j].outline : j \in {h \in 1..Len(st) : st[h].outline.memory_id = id}}

\* mutant: the memory_id is not passed on to the repository query
get_therapy_outline_by_memory_id_any(st, id) ==
    {st[j].outline : j \in 1..Len(st)}

\* TherapyOutlineService.get_therapy_outline_by_memory_id
get_therapy_outline_by_memory_id(st, id) ==
    repository_get_therapy_outline_by_memory_id(st, id)

\* ------------------------------------------------------------------ prompt
\* the f-string of _construct_therapy_outline_prompt, one token per line of
\* the template; the two payloads are interpolated with str()
PromptHead ==
    <<Word("Generate a therapy outline in the following JSON format:"),
      Punct("{"), Word("patient_id: string"), Word("memory_id: string"),
      Word("steps: [step, description, guide, type, media_urls, script]"),
      Punct("}"), Word("Memory Details:")>>

PromptMid == <<Word("Patient Details:")>>

\* line 123 quotes the field name guide with single backticks (inline code,
\* not a fence)
PromptTail ==
    <<Word("Requirements:"),
      Word("- Use the patient details and memory details"),
      Word("- Include associated media URLs"),
      Word("- Follow a logical structure"),
      Word("- Provide guidance points for each step in the guide field."),
      Word("- Each step should include a script"),
      Word("- Choose one consistent voice for all steps"),
      Word("- Ensure the JSON format matches the provided structure."),
      Word("- Provide the output as a valid JSON object without code block markers.")>>

_construct_therapy_outline_prompt(input_data) ==
    PromptHead \o py_str(input_data.memory_details) \o PromptMid
    \o py_str(input_data.patient_details) \o PromptTail

\* input_data of generate_and_save_therapy_outline
InputData(memory_id, mem, pat) ==
    [memory_id |-> memory_id, memory_details |-> mem.dump,
     patient_details |-> pat.dump]

\* ------------------------------------------------------------------ replies
\* what response.choices[0].message.content may be
StepEntry(num, ty, voice, desc) ==
    JObj(<<Mem("step", JNum(num)), Mem("description", JStr(desc)),
           Mem("guide", JArr(<<JStr("g1")>>)), Mem("type", JStr(ty)),
           Mem("media_urls", JArr(<<>>)),
           Mem("script", JObj(<<Mem("voice", JStr(voice)), Mem("text", JStr("t"))>>))>>)

ReplyDoc(pid, id, steps) ==
    JObj(<<Mem("patient_id", JStr(pid)), Mem("memory_id", JStr(id)),
           Mem("steps", JArr(steps))>>)

DocOne == ReplyDoc("p1", "m1", <<StepEntry(1, "INTRODUCTION", "alloy", "d")>>)
DocTwo == ReplyDoc("p9", "m9", <<StepEntry(1, "INTRODUCTION", "alloy", "d1"),
                                  StepEntry(2, "CONCLUSION", "echo", "d2")>>)
DocEmpty == ReplyDoc("p1", "m1", <<>>)
WellFormedDocs == {DocOne, DocTwo, DocEmpty}

\* the reply of the worked example, token by token
SpecReply ==
    <<Punct("{"), StrTok("patient_id"), Punct(":"), StrTok("p1"), Punct(","),
      StrTok("memory_id"), Punct(":"), StrTok("m1"), Punct(","),
      StrTok("steps"), Punct(":"), Punct("["), Punct("{"),
      StrTok("step"), Punct(":"), NumTok(1), Punct(","),
      StrTok("description"), Punct(":"), StrTok("d"), Punct(","),
      StrTok("guide"), Punct(":"), Punct("["), StrTok("g1"), Punct("]"), Punct(","),
      StrTok("type"), Punct(":"), StrTok("INTRODUCTION"), Punct(","),
      StrTok("media_urls"), Punct(":"), Punct("["), Punct("]"), Punct(","),
      StrTok("script"), Punct(":"), Punct("{"),
      StrTok("voice"), Punct(":"), StrTok("alloy"), Punct(","),
      StrTok("text"), Punct(":"), StrTok("t"), Punct("}"),
      Punct("}"), Punct("]"), Punct("}")>>

NotJson == <<Word("not"), Word("json")>>
Fenced == <<Fence, Word("json")>> \o SpecReply \o <<Fence>>
Truncated == SubSeq(dumps(DocTwo), 1, Len(dumps(DocTwo)) - 2)
ExtraData == dumps(DocEmpty) \o <<Word("Hope this helps")>>
InvalidTexts == {NotJson, Fenced, Truncated, ExtraData}

UnusableDocs ==
    {JObj(<<Mem("patient_id", JStr("p1"))>>),
     JArr(<<StepEntry(1, "NORMAL", "nova", "d")>>),
     JObj(<<Mem("steps", JNull)>>),
     JObj(<<Mem("steps", JArr(<<JObj(<<Mem("step", JNum(1))>>)>>))>>)}

Replies ==
    {SpecReply} \cup {dumps(d) : d \in (WellFormedDocs \ {DocOne}) \cup UnusableDocs}
    \cup InvalidTexts

\* ------------------------------------------------------------------ state
Inv == 1..NumInv

VARIABLES
    pc,              \* where each invocation stands
    mid,             \* its argument memory_id
    memory,          \* local memory
    patient,         \* local patient
    prompt,          \* the user message sent to the model
    output,          \* response.choices[0].message.content
    outline_json,    \* the parsed reply
    therapy_outline, \* the TherapyOutline built
    ret,             \* value returned by generate_and_save_therapy_outline
    got,             \* value returned by get_therapy_outline_by_memory_id
    err,             \* exception that ended the invocation
    hist,            \* the external steps the invocation made, in order
    calls,           \* model API calls the invocation made
    store,           \* the repository's stored outlines
    pin,             \* input of a direct _construct_therapy_outline_prompt call
    pout,            \* its result
    pdone

locals == <<pc, mid, memory, patient, prompt, output, outline_json,
            therapy_outline, ret, got, err, hist, calls>>
pvars == <<pin, pout, pdone>>
vars == <<locals, store, pvars>>

NoInput == [memory_id |-> "", memory_details |-> JNull, patient_details |-> JNull]

InitService ==
    /\ pc = [i \in Inv |-> "idle"]
    /\ mid = [i \in Inv |-> ""]
    /\ memory = [i \in Inv |-> NoneMemory]
    /\ patient = [i \in Inv |-> NoPatient]
    /\ prompt = [i \in Inv |-> <<>>]
    /\ output = [i \in Inv |-> <<>>]
    /\ outline_json = [i \in Inv |-> JNull]
    /\ therapy_outline = [i \in Inv |-> NoOutline]
    /\ ret = [i \in Inv |-> NoId]
    /\ got = [i \in Inv |-> NoOutline]
    /\ err = [i \in Inv |-> NoErr]
    /\ hist = [i \in Inv |-> <<>>]
    /\ calls = [i \in Inv |-> 0]
    /\ store = <<>>

Init ==
    /\ InitService
    /\ pin = NoInput /\ pout = <<>> /\ pdone = FALSE

\* mutant: memory is kept on the service instance, shared by the invocations
LocalMemory_shared(i) ==
    LET have == {j \in Inv : hist[j] # <<>> /\ ~memory[j].isNone} IN
    IF have = {} THEN memory[i] ELSE memory[CHOOSE j \in have : TRUE]

\* the local variable memory of invocation i
LocalMemory(i) == memory[i]

\* mutant: the exception is caught and the call returns normally
Raise_swallow(i, e) ==
    /\ pc' = [pc EXCEPT ![i] = "done"]
    /\ err' = err

\* an exception leaves the invocation
Raise(i, e) ==
    /\ pc' = [pc EXCEPT ![i] = "failed"]
    /\ err' = [err EXCEPT ![i] = e]

\* ------------------------------------------------------------------ actions
\* generate_and_save_therapy_outline(memory_id) is entered:
\* memory = self.memory_service.get_memory_by_id(memory_id)
MemoryLookup(i, id) ==
    /\ pc[i] = "idle"
    /\ mid' = [mid EXCEPT ![i] = id]
    /\ memory' = [memory EXCEPT ![i] = get_memory_by_id(id)]
    /\ hist' = [hist EXCEPT ![i] = Append(@, "memory")]
    /\ pc' = [pc EXCEPT ![i] = "patient_lookup"]
    /\ UNCHANGED <<patient, prompt, output, outline_json,
                   therapy_outline, ret, got, err, calls, store, pvars>>

MemoryLookupRaises(i, id) ==
    /\ pc[i] = "idle"
    /\ mid' = [mid EXCEPT ![i] = id]
    /\ hist' = [hist EXCEPT ![i] = Append(@, "memory")]
    /\ Raise(i, Err("CollaboratorError", "memory"))
    /\ UNCHANGED <<memory, patient, prompt, output, outline_json,
                   therapy_outline, ret, got, calls, store, pvars>>

\* patient = self.patient_service.get_patient_by_id(memory.patient_id), whose
\* argument memory.patient_id is evaluated first; then "if not memory: raise
\* ValueError" and input_data
PatientLookup(i) ==
    /\ pc[i] = "patient_lookup"
    /\ IF LocalMemory(i).isNone
       THEN /\ Raise(i, Err("AttributeError", "NoneType has no attribute patient_id"))
            /\ UNCHANGED <<patient, hist>>
       ELSE /\ patient' = [patient EXCEPT ![i] = get_patient_by_id(LocalMemory(i).patient_id)]
            /\ hist' = [hist EXCEPT ![i] = Append(@, "patient")]
            /\ IF ~Truthy(LocalMemory(i))
               THEN Raise(i, Err("ValueError", "No memory found with ID"))
               ELSE /\ pc' = [pc EXCEPT ![i] = "generate"]
                    /\ UNCHANGED err
    /\ UNCHANGED <<mid, memory, prompt, output, outline_json,
                   therapy_outline, ret, got, calls, store, pvars>>

PatientLookupRaises(i) ==
    /\ pc[i] = "patient_lookup"
    /\ ~LocalMemory(i).isNone
    /\ hist' = [hist EXCEPT ![i] = Append(@, "patient")]
    /\ Raise(i, Err("CollaboratorError", "patient"))
    /\ UNCHANGED <<mid, memory, patient, prompt, output, outline_json,
                   therapy_outline, ret, got, calls, store, pvars>>

\* outline_json = self._generate_therapy_outline(input_data): the prompt, one
\* chat completion, output = response.choices[0].message.content,
\* return self._parse_json_output(output)
GenerateOutline(i) ==
    /\ pc[i] = "generate"
    /\ prompt' = [prompt EXCEPT ![i] =
           _construct_therapy_outline_prompt(
               InputData(mid[i], LocalMemory(i), patient[i]))]
    /\ calls' = [calls EXCEPT ![i] = @ + 1]
    /\ \E text \in Replies :
         LET r == _parse_json_output(text) IN
         /\ output' = [output EXCEPT ![i] = text]
         /\ IF r.ok
            THEN /\ outline_json' = [outline_json EXCEPT ![i] = r.v]
                 /\ pc' = [pc EXCEPT ![i] = "map_steps"]
                 /\ UNCHANGED err
            ELSE /\ Raise(i, r.err)
                 /\ UNCHANGED outline_json
    /\ hist' = [hist EXCEPT ![i] = @ \o <<"model", "parse">>]
    /\ UNCHANGED <<mid, memory, patient, therapy_outline, ret, got, store, pvars>>

\* the chat completion raises
GenerateOutlineRaises(i) ==
    /\ pc[i] = "generate"
    /\ prompt' = [prompt EXCEPT ![i] =
           _construct_therapy_outline_prompt(
               InputData(mid[i], LocalMemory(i), patient[i]))]
    /\ calls' = [calls EXCEPT ![i] = @ + 1]
    /\ hist' = [hist EXCEPT ![i] = Append(@, "model")]
    /\ Raise(i, Err("APIError", "openai"))
    /\ UNCHANGED <<mid, memory, patient, output, outline_json,
                   therapy_outline, ret, got, store, pvars>>

\* therapy_outline = TherapyOutline(..., steps=[Step(**step) for step in
\* outline_json["steps"]])
MapSteps(i) ==
    /\ pc[i] = "map_steps"
    /\ LET e == StepsError(outline_json[i]) IN
       IF e = NoErr
       THEN /\ therapy_outline' = [therapy_outline EXCEPT ![i] =
                 TherapyOutline(mid[i], LocalMemory(i), outline_json[i])]
            /\ pc' = [pc EXCEPT ![i] = "save"]
            /\ UNCHANGED err
       ELSE /\ Raise(i, e)
            /\ UNCHANGED therapy_outline
    /\ hist' = [hist EXCEPT ![i] = Append(@, "map")]
    /\ UNCHANGED <<mid, memory, patient, prompt, output, outline_json,
                   ret, got, calls, store, pvars>>

\* mutant: the save's result is not returned
ReturnValue_none(saved_id, memory_id) == NoId

\* the value generate_and_save_therapy_outline returns
ReturnValue(saved_id, memory_id) == saved_id

\* return self.therapy_outline_repository.save_therapy_outline(therapy_outline)
Save(i) ==
    /\ pc[i] = "save"
    /\ LET r == save_therapy_outline(store, therapy_outline[i], i) IN
       /\ store' = r.store
       /\ ret' = [ret EXCEPT ![i] = ReturnValue(r.id, mid[i])]
    /\ hist' = [hist EXCEPT ![i] = Append(@, "save")]
    /\ pc' = [pc EXCEPT ![i] = "done"]
    /\ UNCHANGED <<mid, memory, patient, prompt, output, outline_json,
                   therapy_outline, got, err, calls, pvars>>

SaveRaises(i) ==
    /\ pc[i] = "save"
    /\ hist' = [hist EXCEPT ![i] = Append(@, "save")]
    /\ Raise(i, Err("CollaboratorError", "storage"))
    /\ UNCHANGED <<mid, memory, patient, prompt, output, outline_json,
                   therapy_outline, ret, got, calls, store, pvars>>

\* a caller runs get_therapy_outline_by_memory_id(memory_id)
GetOutline(i, id) ==
    /\ pc[i] = "idle"
    /\ mid' = [mid EXCEPT ![i] = id]
    /\ LET found == get_therapy_outline_by_memory_id(store, id) IN
       IF found = {}
       THEN /\ Raise(i, Err("NotFoundError", "therapy outline"))
            /\ UNCHANGED got
       ELSE /\ \E o \in found : got' = [got EXCEPT ![i] = o]
            /\ pc' = [pc EXCEPT ![i] = "got"]
            /\ UNCHANGED err
    /\ UNCHANGED <<memory, patient, prompt, output, outline_json,
                   therapy_outline, ret, hist, calls, store, pvars>>

Next ==
    \E i \in Inv :
        \/ \E id \in MemoryIds : MemoryLookup(i, id)
        \/ \E id \in MemoryIds : MemoryLookupRaises(i, id)
        \/ PatientLookup(i)
        \/ PatientLookupRaises(i)
        \/ GenerateOutline(i)
        \/ GenerateOutlineRaises(i)
        \/ MapSteps(i)
        \/ Save(i)
        \/ SaveRaises(i)
        \/ \E id \in MemoryIds : GetOutline(i, id)

Spec == Init /\ [][Next]_vars

\* ------------------------------------------------------------------ prompt harness
\* _construct_therapy_outline_prompt is a static method: it is applied here to
\* payloads of its own, the dicts a caller may pass
MemoryDetails ==
    {Memory("m1", "p1", "wedding").dump,
     Memory("m2", "p2", "harvest").dump,
     JObj(<<Mem("patient_id", JStr("p1")), Mem("title", JStr("wedding"))>>),
     JObj(<<Mem("title", JStr("harvest")), Mem("media", JArr(<<JStr("u1"), JStr("u2")>>))>>),
     JObj(<<Mem("title", JNull)>>),
     JObj(<<>>)}

PatientDetails ==
    {get_patient_by_id("p1").dump,
     get_patient_by_id("p2").dump,
     JObj(<<Mem("name", JStr("Ann")), Mem("hobbies", JArr(<<JStr("chess")>>))>>),
     JObj(<<Mem("name", JStr("Bo")), Mem("age", JNum(81))>>),
     JObj(<<Mem("name", JNull)>>),
     JObj(<<>>)}

InputPayloads ==
    [memory_id : MemoryIds, memory_details : MemoryDetails,
     patient_details : PatientDetails]

PInit ==
    /\ InitService
    /\ pin \in InputPayloads /\ pout = <<>> /\ pdone = FALSE

ConstructPrompt ==
    /\ ~pdone
    /\ pout' = _construct_therapy_outline_prompt(pin)
    /\ pdone' = TRUE
    /\ UNCHANGED <<pin, locals, store>>

PNext == ConstructPrompt

PromptSpec == PInit /\ [][PNext]_vars

\* ------------------------------------------------------------------ properties
Range(q) == {q[j] : j \in 1..Len(q)}
StoredBy(i) == {j \in 1..Len(store) : store[j].by = i}
Order == <<"memory", "patient", "model", "parse", "map", "save">>
IsPrefix(q, r) == Len(q) <= Len(r) /\ \A j \in 1..Len(q) : q[j] = r[j]

\* json.loads of every reply text, and the text of every well-formed document
LoadsOf == [text \in Replies |-> json_loads(text)]
DumpsOf == [d \in WellFormedDocs |-> dumps(d)]
\* the reply invocation i received has been through json.loads
Parsed(i) == "parse" \in Range(hist[i])

\* C1: the outline handed to save_therapy_outline (and the one stored) carries
\* the input memory_id and the looked-up memory's patient_id, whatever ids the
\* model's reply carries.
C1_OutlineIds ==
    \A i \in Inv :
        /\ (pc[i] = "save" \/ "save" \in Range(hist[i])) =>
              /\ therapy_outline[i].memory_id = mid[i]
              /\ therapy_outline[i].patient_id = memory[i].patient_id
              /\ ~memory[i].isNone
        /\ \A j \in StoredBy(i) :
              /\ store[j].outline.memory_id = mid[i]
              /\ store[j].outline.patient_id = memory[i].patient_id

\* a saved outline whose reply carried other ids (p9, m9)
C1_Witness ==
    \E i \in Inv :
        /\ pc[i] = "done" /\ output[i] = DumpsOf[DocTwo]
        /\ \E j \in StoredBy(i) : store[j].outline.memory_id = "m2"
                                  /\ store[j].outline.patient_id = "p2"

\* C2: a reply that is not valid JSON ends the invocation with the ValueError
\* "Invalid JSON output from OpenAI" built from the decode error, and that
\* invocation never saves.
C2_InvalidJson ==
    \A i \in Inv :
        (Parsed(i) /\ ~LoadsOf[output[i]].ok) =>
            /\ pc[i] = "failed"
            /\ err[i].type = "ValueError"
            /\ err[i].msg = "Invalid JSON output from OpenAI"
            /\ err[i].cause = LoadsOf[output[i]].pos
            /\ "save" \notin Range(hist[i])
            /\ StoredBy(i) = {}

C2_Witness ==
    \E i \in Inv : pc[i] = "failed" /\ output[i] = NotJson /\ "parse" \in Range(hist[i])

\* the memory lookup of invocation i returned None
ReturnedNothing(i) ==
    /\ hist[i] # <<>>
    /\ memory[i].isNone
    /\ err[i] # Err("CollaboratorError", "memory")

\* C3: when the memory lookup returns nothing the invocation fails with the
\* "no memory found" ValueError, before any patient-dependent step, model call
\* or save.
C3_NoMemoryFound ==
    \A i \in Inv :
        (ReturnedNothing(i) /\ pc[i] # "patient_lookup") =>
            /\ pc[i] = "failed"
            /\ err[i] = Err("ValueError", "No memory found with ID")
            /\ hist[i] = <<"memory">>
            /\ calls[i] = 0

\* step entities against the entries of a reply document, field for field
StepsMatch(steps, entries) ==
    /\ Len(steps) = Len(entries)
    /\ \A k \in 1..Len(steps) :
          /\ steps[k].step = DictGet(entries[k], "step").n
          /\ steps[k].description = DictGet(entries[k], "description").s
          /\ steps[k].guide = StrList(DictGet(entries[k], "guide"))
          /\ steps[k].type = DictGet(entries[k], "type").s
          /\ steps[k].media_urls = StrList(DictGet(entries[k], "media_urls"))
          /\ steps[k].script.voice = DictGet(DictGet(entries[k], "script"), "voice").s
          /\ steps[k].script.text = DictGet(DictGet(entries[k], "script"), "text").s

\* C4: a persisted outline's steps are the reply's steps entries one-to-one,
\* in order, field for field; the worked example's reply gives exactly one
\* step, of type INTRODUCTION and voice alloy.
C4_StepsMapped ==
    \A j \in 1..Len(store) :
        LET o == store[j].outline
            text == output[store[j].by]
        IN /\ \A d \in WellFormedDocs :
                 text = DumpsOf[d] => StepsMatch(o.steps, DictGet(d, "steps").a)
           /\ text = SpecReply =>
                 /\ Len(o.steps) = 1
                 /\ o.steps[1].type = "INTRODUCTION"
                 /\ o.steps[1].script.voice = "alloy"

C4_Witness ==
    /\ \E j \in 1..Len(store) : output[store[j].by] = SpecReply
    /\ \E j \in 1..Len(store) : Len(store[j].outline.steps) = 2

\* C5: get_therapy_outline_by_memory_id returns an outline the repository
\* holds for that id, unchanged, and the call changes nothing in storage.
C5_GetRoundTrip ==
    [][\A i \in Inv :
          (pc[i] = "idle" /\ pc'[i] = "got") =>
              /\ store' = store
              /\ \E j \in 1..Len(store) :
                    /\ store[j].outline.memory_id = mid'[i]
                    /\ got'[i] = store[j].outline]_vars

C5_Witness ==
    \E i \in Inv : pc[i] = "got" /\ mid[i] = "m2" /\ got[i].memory_id = "m2"
                   /\ Len(got[i].steps) = 2

\* a token carrying the literal x
ContainsLiteral(text, x) ==
    \E j \in 1..Len(text) : text[j].k \in {"word", "str", "sq"} /\ text[j].s = x

\* sub occurs in text as a contiguous run
ContainsText(text, sub) ==
    \E j \in 0..(Len(text) - Len(sub)) :
        \A h \in 1..Len(sub) : text[j + h] = sub[h]

HasFence(text) == \E j \in 1..Len(text) : text[j] = Fence

\* C6: the prompt contains the literal memory-id, the serialized memory
\* payload and the serialized patient payload, and no code-fence marker.
C6_PromptContents ==
    pdone =>
        /\ ContainsLiteral(pout, pin.memory_id)
        /\ ContainsText(pout, py_str(pin.memory_details))
        /\ ContainsText(pout, py_str(pin.patient_details))
        /\ ~HasFence(pout)

\* C7: all steps of a persisted outline carry one and the same voice.
C7_OneVoice ==
    \A j \in 1..Len(store) :
        \A a, b \in 1..Len(store[j].outline.steps) :
            store[j].outline.steps[a].script.voice
                = store[j].outline.steps[b].script.voice

\* C8: the external steps of an invocation follow the order memory lookup,
\* patient lookup, model call, parse, step mapping, save; at most one model
\* call and one save; a save only after parse and mapping succeeded; the
\* value returned is the identifier the save yielded.
C8_OrderAndReturn ==
    \A i \in Inv :
        /\ IsPrefix(hist[i], Order)
        /\ calls[i] <= 1
        /\ calls[i] = Cardinality({k \in 1..Len(hist[i]) : hist[i][k] = "model"})
        /\ Cardinality(StoredBy(i)) <= 1
        /\ StoredBy(i) # {} =>
              /\ hist[i] = Order
              /\ LoadsOf[output[i]].ok
              /\ StepsError(LoadsOf[output[i]].v) = NoErr
        /\ pc[i] = "done" =>
              /\ ret[i] # NoId
              /\ \E j \in StoredBy(i) : store[j].id = ret[i]

C8_Witness ==
    \E i \in Inv : pc[i] = "done" /\ ret[i] = 2 /\ hist[i] = Order

\* the external step at which exception e leaves the invocation
FailStep(e) ==
    CASE e = Err("CollaboratorError", "memory") -> "memory"
      [] e.type = "AttributeError" -> "memory"
      [] e = Err("CollaboratorError", "patient") -> "patient"
      [] e.type = "APIError" -> "model"
      [] e.type = "ValueError" /\ e.msg = "Invalid JSON output from OpenAI" -> "parse"
      [] e.type \in {"KeyError", "TypeError", "ValidationError"} -> "map"
      [] e = Err("CollaboratorError", "storage") -> "save"
      [] OTHER -> "none"

\* C9: every failure ends the invocation with an error the caller sees: no
\* step runs after the failing one, nothing is returned, an invocation that
\* went on past a step had that step succeed, and a failure before the save
\* leaves no outline persisted by the invocation.
C9_FailuresSurface ==
    \A i \in Inv :
        /\ pc[i] = "failed" =>
              /\ err[i] # NoErr
              /\ ret[i] = NoId /\ got[i] = NoOutline
              /\ hist[i] # <<>> =>
                    /\ hist[i][Len(hist[i])] = FailStep(err[i])
                    /\ hist[i][Len(hist[i])] # "save" => StoredBy(i) = {}
        /\ pc[i] # "failed" => err[i] = NoErr
        /\ pc[i] \in {"generate", "map_steps", "save", "done"} => ~memory[i].isNone
        /\ pc[i] \in {"map_steps", "save", "done"} => Parsed(i) /\ LoadsOf[output[i]].ok
        /\ pc[i] \in {"save", "done"} => StepsError(LoadsOf[output[i]].v) = NoErr
        /\ pc[i] = "done" => hist[i] = Order /\ StoredBy(i) # {}

\* every kind of failure has happened to some invocation
C9_Witness ==
    /\ \E i \in Inv : pc[i] = "failed" /\ err[i].type = "KeyError"
    /\ \E i \in Inv : pc[i] = "failed" /\ err[i] = Err("CollaboratorError", "storage")

\* C10: with invocations interleaved, each persisted outline is built from
\* the saving invocation's own memory_id, its own memory's patient_id and its
\* own reply.
C10_Independent ==
    \A j \in 1..Len(store) :
        LET i == store[j].by
            o == store[j].outline
        IN /\ o.memory_id = mid[i]
           /\ o.patient_id = get_memory_by_id(mid[i]).patient_id
           /\ Parsed(i) /\ LoadsOf[output[i]].ok
           /\ HasKey(LoadsOf[output[i]].v, "steps")
           /\ o.steps = [k \in 1..Len(DictGet(LoadsOf[output[i]].v, "steps").a) |->
                            Step(DictGet(LoadsOf[output[i]].v, "steps").a[k])]

\* two invocations, for different memories and with different replies, both saved
C10_Witness ==
    /\ Len(store) = 2
    /\ store[1].by # store[2].by
    /\ store[1].outline.patient_id # store[2].outline.patient_id
    /\ output[store[1].by] # output[store[2].by]

====
